---- MODULE Spec2Model ----
(***************************************************************************)
(* Model of streamlit_scraper.py: the contact extractor (regular           *)
(* expressions over page markup, phone normalisation and validation), the  *)
(* query builder, and the scraping run scrape_social_media_async (search,  *)
(* consent, pagination, link visits, progress reports).                    *)
(*                                                                         *)
(* Python strings are sequences of characters (see Characters below).      *)
(***************************************************************************)
EXTENDS Integers, Sequences, FiniteSets, TLC

VARIABLES
    \* ---- a call of extract_contacts_from_html on its own ----
    parts,      \* the fragments the markup under test is assembled from
    markup,     \* the markup handed to extract_contacts_from_html
    xpc,        \* "input" before the call, "extracted" after it
    emails,     \* returned email list
    phones,     \* returned phone list (clean_phones)
    \* ---- a run of scrape_social_media(_async) ----
    keyword,          \* parameter
    selected_domains, \* parameter
    max_results,      \* parameter
    progress,         \* TRUE iff a progress observer is supplied
    query,            \* the search query built by build_query (line 74)
    next_btn,         \* the local next_btn (line 98): "unbound", "absent" or "present"
    pc,               \* position of the coroutine
    barrier,          \* consent interstitial: "none", "shown", "dismissed"
    pageNo,           \* results page the search page context shows
    pending,          \* anchors of the current results page not yet scanned
    href,             \* href of the anchor scanned last (line 92)
    links,            \* accumulated candidate links
    i,                \* enumerate(links, 1) index of the link loop
    openPages,        \* link page contexts currently open (link indexes)
    navigated,        \* links new_page.goto was called on, in call order
    html,             \* markup captured from the current link page
    rows,             \* result records
    notified,         \* fractions the progress observer received
    log,              \* links printed by the except branch (line 124)
    raised,           \* where the exception that ended the run came from
    ret               \* what scrape_social_media returned

xvars == <<parts, markup, xpc, emails, phones>>

rvars == <<keyword, selected_domains, max_results, progress, next_btn, query, pc, barrier, pageNo,
           pending, href, links, i, openPages, navigated, html, rows, notified, log,
           raised, ret>>

vars == <<xvars, rvars>>

(***************************************************************************)
(* Characters.  A Python string is a sequence of characters, and a         *)
(* character is a one-character TLA+ string when it is printable ASCII     *)
(* (U+0020 to U+007E, except the backquote) or one of tab, line feed,      *)
(* carriage return and form feed ("\t", "\n", "\r", "\f"), and the token   *)
(* "U+XXXX" (code point in upper-case hexadecimal, at least four digits)   *)
(* otherwise: e-acute is "U+00E9", the Arabic-Indic digit four "U+0664",   *)
(* the backquote "U+0060", NUL "U+0000".                                   *)
(* The classes \d, \w and \s are those of Python 3.11 (Unicode 14) for     *)
(* str patterns; outside ASCII they are given as code point ranges.        *)
(***************************************************************************)
HexDigits == <<"0", "1", "2", "3", "4", "5", "6", "7", "8", "9",
               "A", "B", "C", "D", "E", "F">>

\* n in hexadecimal, w digits at least
RECURSIVE HexOf(_, _)
HexOf(n, w) ==
    IF n < 16 /\ w <= 1 THEN HexDigits[n + 1]
    ELSE HexOf(n \div 16, w - 1) \o HexDigits[(n % 16) + 1]

\* the character of code point n, for the characters written as tokens
Chr(n) == "U+" \o HexOf(n, 4)

CodesIn(R) == UNION {r[1]..r[2] : r \in R}

\* [0-9]
AsciiDigits == {"0", "1", "2", "3", "4", "5", "6", "7", "8", "9"}

\* the decimal digits (category Nd) outside ASCII: each range is a run of
\* digits zero to nine, the mathematical digits five such runs
DigitRanges ==
    {
     <<1632, 1641>>, <<1776, 1785>>, <<1984, 1993>>, <<2406, 2415>>, <<2534, 2543>>,
     <<2662, 2671>>, <<2790, 2799>>, <<2918, 2927>>, <<3046, 3055>>, <<3174, 3183>>,
     <<3302, 3311>>, <<3430, 3439>>, <<3558, 3567>>, <<3664, 3673>>, <<3792, 3801>>,
     <<3872, 3881>>, <<4160, 4169>>, <<4240, 4249>>, <<6112, 6121>>, <<6160, 6169>>,
     <<6470, 6479>>, <<6608, 6617>>, <<6784, 6793>>, <<6800, 6809>>, <<6992, 7001>>,
     <<7088, 7097>>, <<7232, 7241>>, <<7248, 7257>>, <<42528, 42537>>, <<43216, 43225>>,
     <<43264, 43273>>, <<43472, 43481>>, <<43504, 43513>>, <<43600, 43609>>, <<44016, 44025>>,
     <<65296, 65305>>, <<66720, 66729>>, <<68912, 68921>>, <<69734, 69743>>, <<69872, 69881>>,
     <<69942, 69951>>, <<70096, 70105>>, <<70384, 70393>>, <<70736, 70745>>, <<70864, 70873>>,
     <<71248, 71257>>, <<71360, 71369>>, <<71472, 71481>>, <<71904, 71913>>, <<72016, 72025>>,
     <<72784, 72793>>, <<73040, 73049>>, <<73120, 73129>>, <<92768, 92777>>, <<92864, 92873>>,
     <<93008, 93017>>, <<120782, 120831>>, <<123200, 123209>>, <<123632, 123641>>, <<125264, 125273>>,
     <<130032, 130041>>}

\* \d
Digits == AsciiDigits \cup {Chr(n) : n \in CodesIn(DigitRanges)}

Lower == {"a", "b", "c", "d", "e", "f", "g", "h", "i", "j", "k", "l", "m",
          "n", "o", "p", "q", "r", "s", "t", "u", "v", "w", "x", "y", "z"}

Upper == {"A", "B", "C", "D", "E", "F", "G", "H", "I", "J", "K", "L", "M",
          "N", "O", "P", "Q", "R", "S", "T", "U", "V", "W", "X", "Y", "Z"}

\* [A-Za-z]
Alpha == Lower \cup Upper

\* the alphanumeric characters outside ASCII, as code point ranges
WordRanges ==
    {
     <<170, 170>>, <<178, 179>>, <<181, 181>>, <<185, 186>>, <<188, 190>>,
     <<192, 214>>, <<216, 246>>, <<248, 705>>, <<710, 721>>, <<736, 740>>,
     <<748, 748>>, <<750, 750>>, <<880, 884>>, <<886, 887>>, <<890, 893>>,
     <<895, 895>>, <<902, 902>>, <<904, 906>>, <<908, 908>>, <<910, 929>>,
     <<931, 1013>>, <<1015, 1153>>, <<1162, 1327>>, <<1329, 1366>>, <<1369, 1369>>,
     <<1376, 1416>>, <<1488, 1514>>, <<1519, 1522>>, <<1568, 1610>>, <<1632, 1641>>,
     <<1646, 1647>>, <<1649, 1747>>, <<1749, 1749>>, <<1765, 1766>>, <<1774, 1788>>,
     <<1791, 1791>>, <<1808, 1808>>, <<1810, 1839>>, <<1869, 1957>>, <<1969, 1969>>,
     <<1984, 2026>>, <<2036, 2037>>, <<2042, 2042>>, <<2048, 2069>>, <<2074, 2074>>,
     <<2084, 2084>>, <<2088, 2088>>, <<2112, 2136>>, <<2144, 2154>>, <<2160, 2183>>,
     <<2185, 2190>>, <<2208, 2249>>, <<2308, 2361>>, <<2365, 2365>>, <<2384, 2384>>,
     <<2392, 2401>>, <<2406, 2415>>, <<2417, 2432>>, <<2437, 2444>>, <<2447, 2448>>,
     <<2451, 2472>>, <<2474, 2480>>, <<2482, 2482>>, <<2486, 2489>>, <<2493, 2493>>,
     <<2510, 2510>>, <<2524, 2525>>, <<2527, 2529>>, <<2534, 2545>>, <<2548, 2553>>,
     <<2556, 2556>>, <<2565, 2570>>, <<2575, 2576>>, <<2579, 2600>>, <<2602, 2608>>,
     <<2610, 2611>>, <<2613, 2614>>, <<2616, 2617>>, <<2649, 2652>>, <<2654, 2654>>,
     <<2662, 2671>>, <<2674, 2676>>, <<2693, 2701>>, <<2703, 2705>>, <<2707, 2728>>,
     <<2730, 2736>>, <<2738, 2739>>, <<2741, 2745>>, <<2749, 2749>>, <<2768, 2768>>,
     <<2784, 2785>>, <<2790, 2799>>, <<2809, 2809>>, <<2821, 2828>>, <<2831, 2832>>,
     <<2835, 2856>>, <<2858, 2864>>, <<2866, 2867>>, <<2869, 2873>>, <<2877, 2877>>,
     <<2908, 2909>>, <<2911, 2913>>, <<2918, 2927>>, <<2929, 2935>>, <<2947, 2947>>,
     <<2949, 2954>>, <<2958, 2960>>, <<2962, 2965>>, <<2969, 2970>>, <<2972, 2972>>,
     <<2974, 2975>>, <<2979, 2980>>, <<2984, 2986>>, <<2990, 3001>>, <<3024, 3024>>,
     <<3046, 3058>>, <<3077, 3084>>, <<3086, 3088>>, <<3090, 3112>>, <<3114, 3129>>,
     <<3133, 3133>>, <<3160, 3162>>, <<3165, 3165>>, <<3168, 3169>>, <<3174, 3183>>,
     <<3192, 3198>>, <<3200, 3200>>, <<3205, 3212>>, <<3214, 3216>>, <<3218, 3240>>,
     <<3242, 3251>>, <<3253, 3257>>, <<3261, 3261>>, <<3293, 3294>>, <<3296, 3297>>,
     <<3302, 3311>>, <<3313, 3314>>, <<3332, 3340>>, <<3342, 3344>>, <<3346, 3386>>,
     <<3389, 3389>>, <<3406, 3406>>, <<3412, 3414>>, <<3416, 3425>>, <<3430, 3448>>,
     <<3450, 3455>>, <<3461, 3478>>, <<3482, 3505>>, <<3507, 3515>>, <<3517, 3517>>,
     <<3520, 3526>>, <<3558, 3567>>, <<3585, 3632>>, <<3634, 3635>>, <<3648, 3654>>,
     <<3664, 3673>>, <<3713, 3714>>, <<3716, 3716>>, <<3718, 3722>>, <<3724, 3747>>,
     <<3749, 3749>>, <<3751, 3760>>, <<3762, 3763>>, <<3773, 3773>>, <<3776, 3780>>,
     <<3782, 3782>>, <<3792, 3801>>, <<3804, 3807>>, <<3840, 3840>>, <<3872, 3891>>,
     <<3904, 3911>>, <<3913, 3948>>, <<3976, 3980>>, <<4096, 4138>>, <<4159, 4169>>,
     <<4176, 4181>>, <<4186, 4189>>, <<4193, 4193>>, <<4197, 4198>>, <<4206, 4208>>,
     <<4213, 4225>>, <<4238, 4238>>, <<4240, 4249>>, <<4256, 4293>>, <<4295, 4295>>,
     <<4301, 4301>>, <<4304, 4346>>, <<4348, 4680>>, <<4682, 4685>>, <<4688, 4694>>,
     <<4696, 4696>>, <<4698, 4701>>, <<4704, 4744>>, <<4746, 4749>>, <<4752, 4784>>,
     <<4786, 4789>>, <<4792, 4798>>, <<4800, 4800>>, <<4802, 4805>>, <<4808, 4822>>,
     <<4824, 4880>>, <<4882, 4885>>, <<4888, 4954>>, <<4969, 4988>>, <<4992, 5007>>,
     <<5024, 5109>>, <<5112, 5117>>, <<5121, 5740>>, <<5743, 5759>>, <<5761, 5786>>,
     <<5792, 5866>>, <<5870, 5880>>, <<5888, 5905>>, <<5919, 5937>>, <<5952, 5969>>,
     <<5984, 5996>>, <<5998, 6000>>, <<6016, 6067>>, <<6103, 6103>>, <<6108, 6108>>,
     <<6112, 6121>>, <<6128, 6137>>, <<6160, 6169>>, <<6176, 6264>>, <<6272, 6276>>,
     <<6279, 6312>>, <<6314, 6314>>, <<6320, 6389>>, <<6400, 6430>>, <<6470, 6509>>,
     <<6512, 6516>>, <<6528, 6571>>, <<6576, 6601>>, <<6608, 6618>>, <<6656, 6678>>,
     <<6688, 6740>>, <<6784, 6793>>, <<6800, 6809>>, <<6823, 6823>>, <<6917, 6963>>,
     <<6981, 6988>>, <<6992, 7001>>, <<7043, 7072>>, <<7086, 7141>>, <<7168, 7203>>,
     <<7232, 7241>>, <<7245, 7293>>, <<7296, 7304>>, <<7312, 7354>>, <<7357, 7359>>,
     <<7401, 7404>>, <<7406, 7411>>, <<7413, 7414>>, <<7418, 7418>>, <<7424, 7615>>,
     <<7680, 7957>>, <<7960, 7965>>, <<7968, 8005>>, <<8008, 8013>>, <<8016, 8023>>,
     <<8025, 8025>>, <<8027, 8027>>, <<8029, 8029>>, <<8031, 8061>>, <<8064, 8116>>,
     <<8118, 8124>>, <<8126, 8126>>, <<8130, 8132>>, <<8134, 8140>>, <<8144, 8147>>,
     <<8150, 8155>>, <<8160, 8172>>, <<8178, 8180>>, <<8182, 8188>>, <<8304, 8305>>,
     <<8308, 8313>>, <<8319, 8329>>, <<8336, 8348>>, <<8450, 8450>>, <<8455, 8455>>,
     <<8458, 8467>>, <<8469, 8469>>, <<8473, 8477>>, <<8484, 8484>>, <<8486, 8486>>,
     <<8488, 8488>>, <<8490, 8493>>, <<8495, 8505>>, <<8508, 8511>>, <<8517, 8521>>,
     <<8526, 8526>>, <<8528, 8585>>, <<9312, 9371>>, <<9450, 9471>>, <<10102, 10131>>,
     <<11264, 11492>>, <<11499, 11502>>, <<11506, 11507>>, <<11517, 11517>>, <<11520, 11557>>,
     <<11559, 11559>>, <<11565, 11565>>, <<11568, 11623>>, <<11631, 11631>>, <<11648, 11670>>,
     <<11680, 11686>>, <<11688, 11694>>, <<11696, 11702>>, <<11704, 11710>>, <<11712, 11718>>,
     <<11720, 11726>>, <<11728, 11734>>, <<11736, 11742>>, <<11823, 11823>>, <<12293, 12295>>,
     <<12321, 12329>>, <<12337, 12341>>, <<12344, 12348>>, <<12353, 12438>>, <<12445, 12447>>,
     <<12449, 12538>>, <<12540, 12543>>, <<12549, 12591>>, <<12593, 12686>>, <<12690, 12693>>,
     <<12704, 12735>>, <<12784, 12799>>, <<12832, 12841>>, <<12872, 12879>>, <<12881, 12895>>,
     <<12928, 12937>>, <<12977, 12991>>, <<13312, 19903>>, <<19968, 42124>>, <<42192, 42237>>,
     <<42240, 42508>>, <<42512, 42539>>, <<42560, 42606>>, <<42623, 42653>>, <<42656, 42735>>,
     <<42775, 42783>>, <<42786, 42888>>, <<42891, 42954>>, <<42960, 42961>>, <<42963, 42963>>,
     <<42965, 42969>>, <<42994, 43009>>, <<43011, 43013>>, <<43015, 43018>>, <<43020, 43042>>,
     <<43056, 43061>>, <<43072, 43123>>, <<43138, 43187>>, <<43216, 43225>>, <<43250, 43255>>,
     <<43259, 43259>>, <<43261, 43262>>, <<43264, 43301>>, <<43312, 43334>>, <<43360, 43388>>,
     <<43396, 43442>>, <<43471, 43481>>, <<43488, 43492>>, <<43494, 43518>>, <<43520, 43560>>,
     <<43584, 43586>>, <<43588, 43595>>, <<43600, 43609>>, <<43616, 43638>>, <<43642, 43642>>,
     <<43646, 43695>>, <<43697, 43697>>, <<43701, 43702>>, <<43705, 43709>>, <<43712, 43712>>,
     <<43714, 43714>>, <<43739, 43741>>, <<43744, 43754>>, <<43762, 43764>>, <<43777, 43782>>,
     <<43785, 43790>>, <<43793, 43798>>, <<43808, 43814>>, <<43816, 43822>>, <<43824, 43866>>,
     <<43868, 43881>>, <<43888, 44002>>, <<44016, 44025>>, <<44032, 55203>>, <<55216, 55238>>,
     <<55243, 55291>>, <<63744, 64109>>, <<64112, 64217>>, <<64256, 64262>>, <<64275, 64279>>,
     <<64285, 64285>>, <<64287, 64296>>, <<64298, 64310>>, <<64312, 64316>>, <<64318, 64318>>,
     <<64320, 64321>>, <<64323, 64324>>, <<64326, 64433>>, <<64467, 64829>>, <<64848, 64911>>,
     <<64914, 64967>>, <<65008, 65019>>, <<65136, 65140>>, <<65142, 65276>>, <<65296, 65305>>,
     <<65313, 65338>>, <<65345, 65370>>, <<65382, 65470>>, <<65474, 65479>>, <<65482, 65487>>,
     <<65490, 65495>>, <<65498, 65500>>, <<65536, 65547>>, <<65549, 65574>>, <<65576, 65594>>,
     <<65596, 65597>>, <<65599, 65613>>, <<65616, 65629>>, <<65664, 65786>>, <<65799, 65843>>,
     <<65856, 65912>>, <<65930, 65931>>, <<66176, 66204>>, <<66208, 66256>>, <<66273, 66299>>,
     <<66304, 66339>>, <<66349, 66378>>, <<66384, 66421>>, <<66432, 66461>>, <<66464, 66499>>,
     <<66504, 66511>>, <<66513, 66517>>, <<66560, 66717>>, <<66720, 66729>>, <<66736, 66771>>,
     <<66776, 66811>>, <<66816, 66855>>, <<66864, 66915>>, <<66928, 66938>>, <<66940, 66954>>,
     <<66956, 66962>>, <<66964, 66965>>, <<66967, 66977>>, <<66979, 66993>>, <<66995, 67001>>,
     <<67003, 67004>>, <<67072, 67382>>, <<67392, 67413>>, <<67424, 67431>>, <<67456, 67461>>,
     <<67463, 67504>>, <<67506, 67514>>, <<67584, 67589>>, <<67592, 67592>>, <<67594, 67637>>,
     <<67639, 67640>>, <<67644, 67644>>, <<67647, 67669>>, <<67672, 67702>>, <<67705, 67742>>,
     <<67751, 67759>>, <<67808, 67826>>, <<67828, 67829>>, <<67835, 67867>>, <<67872, 67897>>,
     <<67968, 68023>>, <<68028, 68047>>, <<68050, 68096>>, <<68112, 68115>>, <<68117, 68119>>,
     <<68121, 68149>>, <<68160, 68168>>, <<68192, 68222>>, <<68224, 68255>>, <<68288, 68295>>,
     <<68297, 68324>>, <<68331, 68335>>, <<68352, 68405>>, <<68416, 68437>>, <<68440, 68466>>,
     <<68472, 68497>>, <<68521, 68527>>, <<68608, 68680>>, <<68736, 68786>>, <<68800, 68850>>,
     <<68858, 68899>>, <<68912, 68921>>, <<69216, 69246>>, <<69248, 69289>>, <<69296, 69297>>,
     <<69376, 69415>>, <<69424, 69445>>, <<69457, 69460>>, <<69488, 69505>>, <<69552, 69579>>,
     <<69600, 69622>>, <<69635, 69687>>, <<69714, 69743>>, <<69745, 69746>>, <<69749, 69749>>,
     <<69763, 69807>>, <<69840, 69864>>, <<69872, 69881>>, <<69891, 69926>>, <<69942, 69951>>,
     <<69956, 69956>>, <<69959, 69959>>, <<69968, 70002>>, <<70006, 70006>>, <<70019, 70066>>,
     <<70081, 70084>>, <<70096, 70106>>, <<70108, 70108>>, <<70113, 70132>>, <<70144, 70161>>,
     <<70163, 70187>>, <<70272, 70278>>, <<70280, 70280>>, <<70282, 70285>>, <<70287, 70301>>,
     <<70303, 70312>>, <<70320, 70366>>, <<70384, 70393>>, <<70405, 70412>>, <<70415, 70416>>,
     <<70419, 70440>>, <<70442, 70448>>, <<70450, 70451>>, <<70453, 70457>>, <<70461, 70461>>,
     <<70480, 70480>>, <<70493, 70497>>, <<70656, 70708>>, <<70727, 70730>>, <<70736, 70745>>,
     <<70751, 70753>>, <<70784, 70831>>, <<70852, 70853>>, <<70855, 70855>>, <<70864, 70873>>,
     <<71040, 71086>>, <<71128, 71131>>, <<71168, 71215>>, <<71236, 71236>>, <<71248, 71257>>,
     <<71296, 71338>>, <<71352, 71352>>, <<71360, 71369>>, <<71424, 71450>>, <<71472, 71483>>,
     <<71488, 71494>>, <<71680, 71723>>, <<71840, 71922>>, <<71935, 71942>>, <<71945, 71945>>,
     <<71948, 71955>>, <<71957, 71958>>, <<71960, 71983>>, <<71999, 71999>>, <<72001, 72001>>,
     <<72016, 72025>>, <<72096, 72103>>, <<72106, 72144>>, <<72161, 72161>>, <<72163, 72163>>,
     <<72192, 72192>>, <<72203, 72242>>, <<72250, 72250>>, <<72272, 72272>>, <<72284, 72329>>,
     <<72349, 72349>>, <<72368, 72440>>, <<72704, 72712>>, <<72714, 72750>>, <<72768, 72768>>,
     <<72784, 72812>>, <<72818, 72847>>, <<72960, 72966>>, <<72968, 72969>>, <<72971, 73008>>,
     <<73030, 73030>>, <<73040, 73049>>, <<73056, 73061>>, <<73063, 73064>>, <<73066, 73097>>,
     <<73112, 73112>>, <<73120, 73129>>, <<73440, 73458>>, <<73648, 73648>>, <<73664, 73684>>,
     <<73728, 74649>>, <<74752, 74862>>, <<74880, 75075>>, <<77712, 77808>>, <<77824, 78894>>,
     <<82944, 83526>>, <<92160, 92728>>, <<92736, 92766>>, <<92768, 92777>>, <<92784, 92862>>,
     <<92864, 92873>>, <<92880, 92909>>, <<92928, 92975>>, <<92992, 92995>>, <<93008, 93017>>,
     <<93019, 93025>>, <<93027, 93047>>, <<93053, 93071>>, <<93760, 93846>>, <<93952, 94026>>,
     <<94032, 94032>>, <<94099, 94111>>, <<94176, 94177>>, <<94179, 94179>>, <<94208, 100343>>,
     <<100352, 101589>>, <<101632, 101640>>, <<110576, 110579>>, <<110581, 110587>>, <<110589, 110590>>,
     <<110592, 110882>>, <<110928, 110930>>, <<110948, 110951>>, <<110960, 111355>>, <<113664, 113770>>,
     <<113776, 113788>>, <<113792, 113800>>, <<113808, 113817>>, <<119520, 119539>>, <<119648, 119672>>,
     <<119808, 119892>>, <<119894, 119964>>, <<119966, 119967>>, <<119970, 119970>>, <<119973, 119974>>,
     <<119977, 119980>>, <<119982, 119993>>, <<119995, 119995>>, <<119997, 120003>>, <<120005, 120069>>,
     <<120071, 120074>>, <<120077, 120084>>, <<120086, 120092>>, <<120094, 120121>>, <<120123, 120126>>,
     <<120128, 120132>>, <<120134, 120134>>, <<120138, 120144>>, <<120146, 120485>>, <<120488, 120512>>,
     <<120514, 120538>>, <<120540, 120570>>, <<120572, 120596>>, <<120598, 120628>>, <<120630, 120654>>,
     <<120656, 120686>>, <<120688, 120712>>, <<120714, 120744>>, <<120746, 120770>>, <<120772, 120779>>,
     <<120782, 120831>>, <<122624, 122654>>, <<123136, 123180>>, <<123191, 123197>>, <<123200, 123209>>,
     <<123214, 123214>>, <<123536, 123565>>, <<123584, 123627>>, <<123632, 123641>>, <<124896, 124902>>,
     <<124904, 124907>>, <<124909, 124910>>, <<124912, 124926>>, <<124928, 125124>>, <<125127, 125135>>,
     <<125184, 125251>>, <<125259, 125259>>, <<125264, 125273>>, <<126065, 126123>>, <<126125, 126127>>,
     <<126129, 126132>>, <<126209, 126253>>, <<126255, 126269>>, <<126464, 126467>>, <<126469, 126495>>,
     <<126497, 126498>>, <<126500, 126500>>, <<126503, 126503>>, <<126505, 126514>>, <<126516, 126519>>,
     <<126521, 126521>>, <<126523, 126523>>, <<126530, 126530>>, <<126535, 126535>>, <<126537, 126537>>,
     <<126539, 126539>>, <<126541, 126543>>, <<126545, 126546>>, <<126548, 126548>>, <<126551, 126551>>,
     <<126553, 126553>>, <<126555, 126555>>, <<126557, 126557>>, <<126559, 126559>>, <<126561, 126562>>,
     <<126564, 126564>>, <<126567, 126570>>, <<126572, 126578>>, <<126580, 126583>>, <<126585, 126588>>,
     <<126590, 126590>>, <<126592, 126601>>, <<126603, 126619>>, <<126625, 126627>>, <<126629, 126633>>,
     <<126635, 126651>>, <<127232, 127244>>, <<130032, 130041>>, <<131072, 173791>>, <<173824, 177976>>,
     <<177984, 178205>>, <<178208, 183969>>, <<183984, 191456>>, <<194560, 195101>>, <<196608, 201546>>}

\* \w : the characters on the word side of \b
WordChars ==
    Alpha \cup AsciiDigits \cup {"_"}
        \cup {Chr(n) : n \in CodesIn(WordRanges)}

\* \s among the characters written as one-character strings
PlainSpaceChars == {"\t", "\n", "\f", "\r", " "}

\* the other characters of \s, as code point ranges
SpaceRanges ==
    {
     <<11, 11>>, <<28, 31>>, <<133, 133>>, <<160, 160>>, <<5760, 5760>>, <<8192, 8202>>,
     <<8232, 8233>>, <<8239, 8239>>, <<8287, 8287>>, <<12288, 12288>>}

\* \s
SpaceChars == PlainSpaceChars \cup {Chr(n) : n \in CodesIn(SpaceRanges)}

\* [-\s] : the optional separator after +91
SepChars == {"-"} \cup SpaceChars

\* [6-9]
MobileLead == {"6", "7", "8", "9"}

\* [A-Za-z0-9._%+-]
LocalChars == Alpha \cup AsciiDigits \cup {".", "_", "%", "+", "-"}

\* [A-Za-z0-9.-]
DomainChars == Alpha \cup AsciiDigits \cup {".", "-"}

(***************************************************************************)
(* Sequence helpers (str methods used by the code).                        *)
(***************************************************************************)
SetMax(S) == CHOOSE m \in S : \A k \in S : k <= m

SetMin(S) == CHOOSE m \in S : \A k \in S : m <= k

\* str.startswith
StartsWith(s, pre) == Len(s) >= Len(pre) /\ SubSeq(s, 1, Len(pre)) = pre

\* `pre` occurs in s at position p
OccursAt(s, p, pre) ==
    p >= 1 /\ p + Len(pre) - 1 <= Len(s) /\ SubSeq(s, p, p + Len(pre) - 1) = pre

\* Python's  d in href  on strings
Contains(s, sub) == \E p \in 1..(Len(s) + 1) : OccursAt(s, p, sub)

\* Python's  x in list
InList(x, lst) == \E k \in 1..Len(lst) : lst[k] = x

RECURSIVE Concat(_)
Concat(ss) == IF ss = <<>> THEN <<>> ELSE Head(ss) \o Concat(Tail(ss))

\* sep.join(ss)
RECURSIVE Join(_, _)
Join(sep, ss) ==
    IF ss = <<>> THEN <<>>
    ELSE IF Len(ss) = 1 THEN ss[1]
    ELSE ss[1] \o sep \o Join(sep, Tail(ss))

\* every listing of the finite set S without repetition: the orders in which
\* iterating a Python set can yield its members
Orderings(S) ==
    {f \in [1..Cardinality(S) -> S] : \A a, b \in 1..Cardinality(S) : a # b => f[a] # f[b]}

Range(f) == {f[k] : k \in DOMAIN f}

Count(x, lst) == Cardinality({k \in 1..Len(lst) : lst[k] = x})

(***************************************************************************)
(* re.findall(r"\b(?:\+91[-\s]?)?[6-9]\d{9}\b", html)                      *)
(***************************************************************************)
IsWordAt(s, p) == p >= 1 /\ p <= Len(s) /\ s[p] \in WordChars

\* \b between s[p-1] and s[p]
WordBoundary(s, p) == IsWordAt(s, p - 1) # IsWordAt(s, p)

\* [6-9]\d{9}\b starting at p
MobileAt(s, p) ==
    /\ p >= 1
    /\ p + 9 <= Len(s)
    /\ s[p] \in MobileLead
    /\ \A k \in (p + 1)..(p + 9) : s[k] \in Digits
    /\ WordBoundary(s, p + 10)

\* The index just past a match of the phone pattern that starts at p, or 0
\* when the pattern does not match at p.
PhoneMatchEnd(s, p) ==
    IF ~WordBoundary(s, p) THEN 0
    ELSE IF OccursAt(s, p, <<"+", "9", "1">>)
         THEN IF p + 3 <= Len(s) /\ s[p + 3] \in SepChars /\ MobileAt(s, p + 4)
              THEN p + 14
              ELSE IF MobileAt(s, p + 3) THEN p + 13 ELSE 0
         ELSE IF MobileAt(s, p) THEN p + 10 ELSE 0

\* the non-overlapping matches from position p on, left to right
RECURSIVE FindPhonesFrom(_, _)
FindPhonesFrom(s, p) ==
    IF p > Len(s) THEN <<>>
    ELSE LET e == PhoneMatchEnd(s, p)
         IN  IF e > 0 THEN <<SubSeq(s, p, e - 1)>> \o FindPhonesFrom(s, e)
             ELSE FindPhonesFrom(s, p + 1)

raw_phones(s) == FindPhonesFrom(s, 1)

(***************************************************************************)
(* re.findall(r"[A-Za-z0-9._%+-]+@[A-Za-z0-9.-]+\.[A-Za-z]{2,}", html)     *)
(***************************************************************************)
\* first index >= p whose character is outside class (Len(s)+1 if none)
RunEnd(s, p, class) ==
    SetMin({k \in p..(Len(s) + 1) : k = Len(s) + 1 \/ s[k] \notin class})

\* The index just past the match starting at p, or 0. The local part is the
\* whole run of local characters (it must be followed by "@"); the domain
\* part is greedy, so the dot before the top-level label is the last dot of
\* the domain run that is followed by two letters.
EmailMatchEnd(s, p) ==
    LET at == RunEnd(s, p, LocalChars)
    IN  IF at = p \/ at > Len(s) \/ s[at] # "@" THEN 0
        ELSE LET d == RunEnd(s, at + 1, DomainChars)
                 dots == {k \in (at + 2)..(d - 1) :
                             /\ s[k] = "."
                             /\ k + 2 <= Len(s)
                             /\ s[k + 1] \in Alpha
                             /\ s[k + 2] \in Alpha}
             IN  IF dots = {} THEN 0 ELSE RunEnd(s, SetMax(dots) + 1, Alpha)

RECURSIVE FindEmailsFrom(_, _)
FindEmailsFrom(s, p) ==
    IF p > Len(s) THEN <<>>
    ELSE LET e == EmailMatchEnd(s, p)
         IN  IF e > 0 THEN <<SubSeq(s, p, e - 1)>> \o FindEmailsFrom(s, e)
             ELSE FindEmailsFrom(s, p + 1)

raw_emails(s) == FindEmailsFrom(s, 1)

(***************************************************************************)
(* validate_indian_number: phonenumbers.parse(num_str, "IN"), then         *)
(* is_valid_number and region_code_for_number == "IN"; any exception of    *)
(* the three gives False.  The library is external to the repository.  Its *)
(* parser is represented for texts made of an optional leading plus sign,  *)
(* decimal digits of any script (it maps them to 0-9) and the separators   *)
(* it ignores; any other text is taken as one it cannot parse.  Its        *)
(* numbering plan for India is represented by length and leading-digit     *)
(* rules: ten-digit national numbers starting 6-9 (mobile) or 2-5 (fixed   *)
(* line), and the toll-free range 1800 followed by four to nine digits.    *)
(***************************************************************************)
\* the pairs (digit of any script outside ASCII, its value)
DigitPairs ==
    UNION {{<<Chr(n), (n - r[1]) % 10>> : n \in r[1]..r[2]} : r \in DigitRanges}

\* the ASCII digit a decimal digit of any script stands for
AsciiOf(c) ==
    IF c \in AsciiDigits THEN c
    ELSE HexDigits[(CHOOSE p \in DigitPairs : p[1] = c)[2] + 1]

\* "+" and the full-width plus sign
PlusChars == {"+", Chr(65291)}

\* separators the parser skips between digits
IgnoredChars == {" ", "-", ".", "(", ")"}

\* the digits of the text, mapped to 0-9 (normalize_digits_only)
NormalizeDigits(s) ==
    LET ds == SelectSeq(s, LAMBDA c : c \in Digits)
    IN  [k \in 1..Len(ds) |-> AsciiOf(ds[k])]

\* the text is one the represented parser reads
Parseable(s) ==
    /\ s # <<>>
    /\ \A k \in 1..Len(s) :
          \/ s[k] \in Digits
          \/ s[k] \in IgnoredChars /\ k > 1
          \/ s[k] \in PlusChars /\ k = 1

\* the general pattern of Indian national numbers
GeneralNationalIN(n) ==
    \/ Len(n) = 10 /\ n[1] \in {"2", "3", "4", "5", "6", "7", "8", "9"}
    \/ Len(n) >= 8 /\ Len(n) <= 13 /\ n[1] = "1"
    \/ Len(n) = 13 /\ SubSeq(n, 1, 6) = <<"0", "0", "0", "8", "0", "0">>

\* is_valid_number for a national number of country code 91
ValidNationalIN(n) ==
    \/ Len(n) = 10 /\ n[1] \in {"2", "3", "4", "5", "6", "7", "8", "9"}
    \/ /\ StartsWith(n, <<"1", "8", "0", "0">>)
       /\ Len(n) >= 8
       /\ Len(n) <= 13

\* the national prefix 0 is dropped unless that turns a number of the general
\* pattern into one outside it
StripNationalPrefix(n) ==
    IF /\ n # <<>>
       /\ n[1] = "0"
       /\ ~(GeneralNationalIN(n) /\ ~GeneralNationalIN(Tail(n)))
    THEN Tail(n) ELSE n

\* parse(num_str, "IN"): the country code and the national number
ParseIN(s) ==
    LET d == NormalizeDigits(s)
        rest == SubSeq(d, 3, Len(d))
    IN  IF s[1] \in PlusChars
        THEN IF StartsWith(d, <<"9", "1">>)
             THEN [cc |-> "91", national |-> StripNationalPrefix(rest)]
             ELSE [cc |-> "other", national |-> d]
        ELSE IF /\ StartsWith(d, <<"9", "1">>)
                /\ \/ ~GeneralNationalIN(d) /\ GeneralNationalIN(StripNationalPrefix(rest))
                   \/ Len(d) > 13
             THEN [cc |-> "91", national |-> StripNationalPrefix(rest)]
             ELSE [cc |-> "91", national |-> StripNationalPrefix(d)]

\* lines 36-41
validate_indian_number(num_str) ==
    /\ Parseable(num_str)
    /\ ParseIN(num_str).cc = "91"
    /\ ValidNationalIN(ParseIN(num_str).national)

(***************************************************************************)
(* extract_contacts_from_html                                              *)
(***************************************************************************)
\* re.sub(r"\D", "", ph)
StripNonDigits(ph) == SelectSeq(ph, LAMBDA c : c \in Digits)

\* lines 50-53: the candidate built from one raw match
Candidate(ph) ==
    LET digits == StripNonDigits(ph)
        withcc == IF ~StartsWith(digits, <<"9", "1">>) /\ Len(digits) = 10
                  THEN <<"9", "1">> \o digits
                  ELSE digits
    IN  <<"+">> \o withcc

\* clean_phones without the validate_indian_number test of line 54
clean_phones_unchecked(porder) ==
    [k \in 1..Len(porder) |-> Candidate(porder[k])]

\* lines 48-55: porder is the order in which set(raw_phones) is iterated
clean_phones(porder) ==
    SelectSeq([k \in 1..Len(porder) |-> Candidate(porder[k])], validate_indian_number)

\* lines 44-57. eorder and porder are the orders in which set(...) of the
\* email matches and of the raw phone matches are iterated.
extract_contacts_from_html(eorder, porder) ==
    [emails |-> eorder, phones |-> clean_phones(porder)]

\* the matches kept as a list: list(...) without set(...)
EmailOrdersNoSet(s) == {raw_emails(s)}

\* the iteration orders possible for the markup s
EmailOrders(s) == Orderings(Range(raw_emails(s)))

PhoneOrders(s) == Orderings(Range(raw_phones(s)))

(***************************************************************************)
(* Markup under test: fragments written the way pages present contacts.    *)
(***************************************************************************)
Num1 == <<"9", "8", "7", "6", "5", "4", "3", "2", "1", "0">>

\* a mobile number whose own first two digits are 91
Num2 == <<"9", "1", "2", "3", "4", "5", "6", "7", "8", "9">>

Numbers == {Num1, Num2}

PresentationKinds == {"bare", "plus", "plus_space", "plus_dash", "cc", "split"}

Present(n, kind) ==
    CASE kind = "bare"       -> n
      [] kind = "plus"       -> <<"+", "9", "1">> \o n
      [] kind = "plus_space" -> <<"+", "9", "1", " ">> \o n
      [] kind = "plus_dash"  -> <<"+", "9", "1", "-">> \o n
      [] kind = "cc"         -> <<"9", "1">> \o n
      [] kind = "split"      -> SubSeq(n, 1, 5) \o <<" ">> \o SubSeq(n, 6, 10)

Email1 == <<"a", "@", "b", ".", "i", "n">>

Space == <<" ">>

\* Num1 with its last nine digits written in Arabic-Indic digits
Num1Arabic == <<"9">> \o [k \in 1..9 |-> Chr(1632 + 9 - k)]

\* form feed: a \s character that ends no word and is not a space
FormFeed == <<"\f">>

\* e-acute: a \w character outside ASCII
EAcute == <<Chr(233)>>

Fragments ==
    {Present(Num1, k) : k \in PresentationKinds}
        \cup {Present(Num2, "bare"), Present(Num2, "plus_space")}
        \cup {Space, <<"x">>, Email1}
        \cup {Num1Arabic, <<"+", "9", "1">> \o FormFeed \o Num1, EAcute}

MaxParts == 3

RECURSIVE SeqsUpTo(_, _)
SeqsUpTo(S, n) ==
    IF n = 0 THEN {<<>>}
    ELSE LET shorter == SeqsUpTo(S, n - 1)
         IN  shorter \cup {Append(q, x) : q \in {r \in shorter : Len(r) = n - 1}, x \in S}

(***************************************************************************)
(* The run's inputs and the pages the browser serves.                      *)
(***************************************************************************)
XCom == <<"x", ".", "c", "o", "m">>

TwitterCom == <<"t", "w", "i", "t", "t", "e", "r", ".", "c", "o", "m">>

Https == <<"h", "t", "t", "p", "s", ":", "/", "/">>

HrefX == Https \o XCom \o <<"/", "a">>

\* a host that is not x.com but contains it
HrefNetflix == Https \o <<"n", "e", "t", "f", "l", "i">> \o XCom \o <<"/", "c">>

\* get_attribute("href") of an anchor without href
NoHref == <<"None">>

\* a link a browser navigates to (host twitter.com, user name "a[") and on
\* which urlparse raises ValueError: "[" in the netloc without "]"
HrefBracket == Https \o <<"a", "[", "@">> \o TwitterCom \o <<"/", "b">>

AnchorHrefs == {HrefX, HrefNetflix, HrefBracket, NoHref}

DomainChoices == {<<>>, <<XCom>>, <<TwitterCom>>, <<XCom, TwitterCom>>}

Keywords == {<<"l", "a", "b">>}

MaxResults == 3

MaxAnchors == 2

MaxPages == 2

\* the consent marker of line 80
BeforeYouContinue ==
    <<"B", "e", "f", "o", "r", "e", " ", "y", "o", "u", " ", "c", "o", "n", "t", "i", "n", "u", "e">>

\* markup the search page can return: a results page, a consent interstitial
SearchMarkups == {<<"<", "h", "3", ">">>, <<"<", "p", ">">> \o BeforeYouContinue}

\* markup a visited page can return
PageMarkups == {<<>>, Email1 \o Space \o Present(Num1, "plus_space")}

NoReturn == [returned |-> FALSE, value |-> <<>>]

Returned(v) == [returned |-> TRUE, value |-> v]

(***************************************************************************)
(* build_query (lines 60-65) and its configuration (lines 30-33).          *)
(***************************************************************************)
INDIAN_KEYWORDS ==
    <<<<"I", "n", "d", "i", "a">>,
      <<"M", "u", "m", "b", "a", "i">>,
      <<"D", "e", "l", "h", "i">>,
      <<"B", "a", "n", "g", "a", "l", "o", "r", "e">>,
      <<"H", "y", "d", "e", "r", "a", "b", "a", "d">>,
      <<"C", "h", "e", "n", "n", "a", "i">>,
      <<"K", "o", "l", "k", "a", "t", "a">>,
      <<"A", "h", "m", "e", "d", "a", "b", "a", "d">>,
      <<"P", "u", "n", "e">>,
      <<"J", "a", "i", "p", "u", "r">>,
      <<"S", "u", "r", "a", "t">>,
      <<"L", "u", "c", "k", "n", "o", "w">>>>

\* f'"{k}"'
Quoted(s) == <<"\"">> \o s \o <<"\"">>

OrSep == <<" ", "O", "R", " ">>

\* line 61
india_hint == Join(OrSep, [k \in 1..Len(INDIAN_KEYWORDS) |-> Quoted(INDIAN_KEYWORDS[k])])

\* line 62
contact_hint ==
    <<"(", "i", "n", "t", "e", "x", "t", ":", "\"", "e", "m", "a", "i", "l",
      "\"", " ", "O", "R", " ", "i", "n", "t", "e", "x", "t", ":", "\"",
      "@", "\"", " ", "O", "R", " ", "i", "n", "t", "e", "x", "t", ":",
      "\"", "g", "m", "a", "i", "l", ".", "c", "o", "m", "\"", " ", "O",
      "R", " ", "i", "n", "t", "e", "x", "t", ":", "\"", "y", "a", "h", "o",
      "o", ".", "c", "o", "m", "\"", " ", "O", "R", " ", "i", "n", "t", "e",
      "x", "t", ":", "\"", "o", "u", "t", "l", "o", "o", "k", ".", "c", "o",
      "m", "\"", " ", "O", "R", " ", "i", "n", "t", "e", "x", "t", ":",
      "\"", "c", "o", "n", "t", "a", "c", "t", "\"", ")">>

\* line 63
phone_hint ==
    <<"(", "i", "n", "t", "e", "x", "t", ":", "\"", "p", "h", "o", "n", "e",
      "\"", " ", "O", "R", " ", "i", "n", "t", "e", "x", "t", ":", "\"",
      "m", "o", "b", "i", "l", "e", "\"", " ", "O", "R", " ", "i", "n", "t",
      "e", "x", "t", ":", "\"", "W", "h", "a", "t", "s", "A", "p", "p",
      "\"", " ", "O", "R", " ", "i", "n", "t", "e", "x", "t", ":", "\"",
      "c", "a", "l", "l", "\"", ")">>

SitePrefix == <<"s", "i", "t", "e", ":">>

\* line 64
SiteClause(doms) == Join(OrSep, [k \in 1..Len(doms) |-> SitePrefix \o doms[k]])

\* the query with the keyword left unquoted
build_query_unquoted(kw, doms) ==
    <<"(">> \o SiteClause(doms) \o <<")", " ">> \o kw
        \o <<" ", "(">> \o india_hint \o <<")", " ">> \o contact_hint
        \o <<" ">> \o phone_hint

\* line 65: f'({domains}) "{keyword}" ({india_hint}) {contact_hint} {phone_hint}'
build_query(kw, doms) ==
    <<"(">> \o SiteClause(doms) \o <<")", " ">> \o Quoted(kw)
        \o <<" ", "(">> \o india_hint \o <<")", " ">> \o contact_hint
        \o <<" ">> \o phone_hint

(***************************************************************************)
(* urlparse(link).netloc, as urllib.parse of Python 3.11 computes it, and  *)
(* the inputs on which urlparse raises ValueError.                         *)
(***************************************************************************)
\* _WHATWG_C0_CONTROL_OR_SPACE: U+0000 to U+0020
C0ControlOrSpace ==
    {"\t", "\n", "\f", "\r", " "}
        \cup {Chr(n) : n \in (0..8) \cup {11} \cup (14..31)}

\* _UNSAFE_URL_BYTES_TO_REMOVE
UnsafeUrlChars == {"\t", "\r", "\n"}

\* str.lstrip(cs)
RECURSIVE LStrip(_, _)
LStrip(s, cs) == IF s # <<>> /\ Head(s) \in cs THEN LStrip(Tail(s), cs) ELSE s

\* the url after the lstrip and the removal of tab, CR and LF
CleanUrl(url) ==
    SelectSeq(LStrip(url, C0ControlOrSpace), LAMBDA c : c \notin UnsafeUrlChars)

\* str.find(c) + 1: the first index of c in s, 0 when absent
FirstIndex(s, c) ==
    IF \E k \in 1..Len(s) : s[k] = c
    THEN SetMin({k \in 1..Len(s) : s[k] = c}) ELSE 0

\* scheme_chars
SchemeChars == Alpha \cup AsciiDigits \cup {"+", "-", "."}

\* the cleaned url starts with a scheme
HasScheme(u) ==
    LET c == FirstIndex(u, ":")
    IN  /\ c > 1
        /\ u[1] \in Alpha
        /\ \A k \in 1..(c - 1) : u[k] \in SchemeChars

\* index in url of the ":" ending the scheme, or 0 when the url has no scheme
SchemeEnd(url) == IF HasScheme(CleanUrl(url)) THEN FirstIndex(url, ":") ELSE 0

\* the cleaned url after its scheme
AfterScheme(url) ==
    LET u == CleanUrl(url)
    IN  IF HasScheme(u) THEN SubSeq(u, FirstIndex(u, ":") + 1, Len(u)) ELSE u

\* _splitnetloc: from after "//" to the first of / ? #
Netloc(url) ==
    LET rest == AfterScheme(url)
        ends == {k \in 3..Len(rest) : rest[k] \in {"/", "?", "#"}}
    IN  IF StartsWith(rest, <<"/", "/">>)
        THEN SubSeq(rest, 3, IF ends = {} THEN Len(rest) ELSE SetMin(ends) - 1)
        ELSE <<>>

\* str.split(sep) for a one-character separator
RECURSIVE Split(_, _)
Split(s, sep) ==
    LET k == FirstIndex(s, sep)
    IN  IF k = 0 THEN <<s>>
        ELSE <<SubSeq(s, 1, k - 1)>> \o Split(SubSeq(s, k + 1, Len(s)), sep)

\* int(s, 10) for ASCII digits
RECURSIVE DecValue(_)
DecValue(s) ==
    IF s = <<>> THEN 0
    ELSE 10 * DecValue(SubSeq(s, 1, Len(s) - 1))
             + (CHOOSE v \in 0..9 : HexDigits[v + 1] = s[Len(s)])

\* ipaddress._BaseV4._parse_octet accepts the text
IsOctet(o) ==
    /\ o # <<>>
    /\ \A k \in 1..Len(o) : o[k] \in AsciiDigits
    /\ Len(o) <= 3
    /\ o = <<"0">> \/ o[1] # "0"
    /\ DecValue(o) <= 255

\* ipaddress.IPv4Address accepts the text
IsIPv4(t) ==
    LET octets == Split(t, ".")
    IN  t # <<>> /\ Len(octets) = 4 /\ \A k \in 1..4 : IsOctet(octets[k])

\* _HEX_DIGITS
HexChars == AsciiDigits \cup {"a", "b", "c", "d", "e", "f", "A", "B", "C", "D", "E", "F"}

\* ipaddress._BaseV6._parse_hextet accepts the text
IsHextet(h) ==
    /\ h # <<>>
    /\ \A k \in 1..Len(h) : h[k] \in HexChars
    /\ Len(h) <= 4

\* ipaddress.IPv6Address accepts the text
IsIPv6(t) ==
    LET pct   == FirstIndex(t, "%")
        addr  == IF pct = 0 THEN t ELSE SubSeq(t, 1, pct - 1)
        scope == IF pct = 0 THEN <<>> ELSE SubSeq(t, pct + 1, Len(t))
        pieces == Split(addr, ":")
        v4    == FirstIndex(pieces[Len(pieces)], ".") > 0
        groups == IF v4
                 THEN SubSeq(pieces, 1, Len(pieces) - 1) \o <<<<"0">>, <<"0">>>>
                 ELSE pieces
        n     == Len(groups)
        skips == {k \in 2..(n - 1) : groups[k] = <<>>}
        skip  == IF skips = {} THEN 0 ELSE SetMax(skips)
        hi    == IF skip = 0 THEN n
                 ELSE IF groups[1] = <<>> THEN skip - 2 ELSE skip - 1
        lo    == IF skip = 0 THEN 0
                 ELSE IF groups[n] = <<>> THEN n - skip - 1 ELSE n - skip
    IN  /\ pct = 0 \/ (scope # <<>> /\ FirstIndex(scope, "%") = 0)
        /\ addr # <<>>
        /\ Len(pieces) >= 3
        /\ v4 => IsIPv4(pieces[Len(pieces)])
        /\ n <= 9
        /\ Cardinality(skips) <= 1
        /\ IF skip = 0
           THEN n = 8
           ELSE /\ (groups[1] = <<>> => hi = 0)
                /\ (groups[n] = <<>> => lo = 0)
                /\ 8 - (hi + lo) >= 1
        /\ \A k \in 1..hi : IsHextet(groups[k])
        /\ \A k \in (n - lo + 1)..n : IsHextet(groups[k])

\* netloc.partition('[')[2].partition(']')[0]
BracketedHost(netloc) ==
    LET after == SubSeq(netloc, FirstIndex(netloc, "[") + 1, Len(netloc))
        close == FirstIndex(after, "]")
    IN  IF close = 0 THEN after ELSE SubSeq(after, 1, close - 1)

\* _check_bracketed_host does not raise: an IPvFuture address, matched by
\* \Av[a-fA-F0-9]+\..+\Z , or an IPv6 address
ValidBracketedHost(h) ==
    IF StartsWith(h, <<"v">>)
    THEN LET dot == RunEnd(h, 2, HexChars)
         IN  dot > 2 /\ dot < Len(h) /\ h[dot] = "."
    ELSE IsIPv6(h)

\* the characters whose NFKC form holds one of / ? # @ :
NFKCUnsafe ==
    {Chr(n) : n \in {8263, 8264, 8265, 8448, 8449, 8453, 8454, 10868,
                     65043, 65046, 65109, 65110, 65119, 65131, 65283,
                     65295, 65306, 65311, 65312}}

\* urlsplit raises ValueError (brackets, bracketed host, _checknetloc)
UrlparseRaises(url) ==
    LET netloc == Netloc(url)
        open  == FirstIndex(netloc, "[") > 0
        close == FirstIndex(netloc, "]") > 0
    IN  \/ open # close
        \/ open /\ close /\ ~ValidBracketedHost(BracketedHost(netloc))
        \/ \E k \in 1..Len(netloc) : netloc[k] \in NFKCUnsafe

(***************************************************************************)
(* The decisions of scrape_social_media_async.                             *)
(***************************************************************************)
\* Accepts without the domain test
AcceptsAnyDomain(h, doms, lnks) ==
    /\ h # NoHref
    /\ h # <<>>
    /\ ~InList(h, lnks)

\* Accepts without the  href not in links  test
AcceptsRepeats(h, doms, lnks) ==
    /\ h # NoHref
    /\ h # <<>>
    /\ \E k \in 1..Len(doms) : Contains(h, doms[k])

\* line 93: href and any(d in href for d in selected_domains) and href not in links
Accepts(h, doms, lnks) ==
    /\ h # NoHref
    /\ h # <<>>
    /\ \E k \in 1..Len(doms) : Contains(h, doms[k])
    /\ ~InList(h, lnks)

\* the for loop without its break
NeverBreakMidPage(lnks, maxr) == FALSE

\* line 95: the break inside the for loop
BreakMidPage(lnks, maxr) == Len(lnks) >= maxr

\* line 99 without its count test: the control is clicked whenever it exists
PagingStepClicksAtMax(btn, lnks, maxr) == IF ~btn THEN "break" ELSE "click"

\* the loop left only when the maximum is reached: without a next-page control
\* it goes round again
PagingStepNoBreak(btn, lnks, maxr) ==
    IF Len(lnks) >= maxr THEN "break" ELSE IF btn THEN "click" ELSE "again"

\* lines 99-101: what follows the next-page query: "break" leaves the while
\* loop, "click" clicks the control, "again" re-enters the loop on the same page
PagingStep(btn, lnks, maxr) ==
    IF ~btn \/ Len(lnks) >= maxr THEN "break" ELSE "click"

\* the search resumed between two link visits
AfterLinkBackToSearch(idx, n) == IF idx < n THEN "query" ELSE "shutdown"

\* line 105: where the for loop over links goes after link number idx of n
AfterLink(idx, n) == IF idx < n THEN "open" ELSE "shutdown"

\* lines 114-120
MakeRecord(kw, link, es, ps) ==
    [keyword |-> kw,
     url     |-> link,
     domain  |-> Netloc(link),
     emails  |-> Join(<<",", " ">>, es),
     phones  |-> Join(<<",", " ">>, ps)]

\* rows.insert(0, ...) in place of rows.append
PrependRow(rs, rec) == <<rec>> \o rs

\* line 114: rows.append
AppendRow(rs, rec) == Append(rs, rec)

\* line 122: progress.progress(i / len(links))
Fraction(idx, n) == [num |-> idx, den |-> n]

Urls(rs) == [k \in 1..Len(rs) |-> rs[k].url]

(***************************************************************************)
(* Initial states.                                                         *)
(***************************************************************************)
ExtractIdle ==
    /\ parts = <<>>
    /\ markup = <<>>
    /\ xpc = "idle"
    /\ emails = <<>>
    /\ phones = <<>>

RunFields ==
    /\ query = <<>>
    /\ next_btn = "unbound"
    /\ barrier = "none"
    /\ pageNo = 1
    /\ pending = <<>>
    /\ href = <<>>
    /\ links = <<>>
    /\ i = 0
    /\ openPages = {}
    /\ navigated = <<>>
    /\ html = <<>>
    /\ rows = <<>>
    /\ notified = <<>>
    /\ log = <<>>
    /\ raised = "none"
    /\ ret = NoReturn

RunStart == pc = "call" /\ RunFields

\* a call scrape_social_media(keyword, selected_domains, max_results, progress)
Init ==
    /\ keyword \in Keywords
    /\ selected_domains \in DomainChoices
    /\ max_results \in 1..MaxResults
    /\ progress \in BOOLEAN
    /\ RunStart
    /\ ExtractIdle

(***************************************************************************)
(* The coroutine takes one step per await: pc names the operation awaited, *)
(* and a step is the return (or the raise) of that operation together with *)
(* the synchronous code that follows it up to the next await.              *)
(*                                                                         *)
(* Exceptions.                                                             *)
(***************************************************************************)
\* the exception swallowed and the rows so far returned
Swallow(where) ==
    /\ pc' = "done"
    /\ raised' = where
    /\ ret' = Returned(rows)

\* the exception ends the run quietly with an empty result
PropagateAsEmptyResult(where) ==
    /\ pc' = "done"
    /\ raised' = where
    /\ ret' = Returned(<<>>)

\* An exception raised inside the async-with block that no except clause
\* catches leaves the block: its exit (line 70) is awaited next, with the
\* exception in flight.  Nothing is returned.
Propagate(where) ==
    /\ pc' = "unwind"
    /\ raised' = where
    /\ ret' = NoReturn

\* an awaited operation outside the per-link try block raised
Abort(where) ==
    /\ Propagate(where)
    /\ UNCHANGED <<keyword, selected_domains, max_results, progress, next_btn, query,
                   barrier, pageNo, pending, href, links, i, openPages, navigated, html,
                   rows, notified, log>>
    /\ UNCHANGED xvars

\* An exception with no async-with exit to await (before the block is
\* entered, or raised by the exit itself) reaches the caller at once.
Escape(where) ==
    /\ pc' = "failed"
    /\ raised' = where
    /\ UNCHANGED <<keyword, selected_domains, max_results, progress, next_btn, query,
                   barrier, pageNo, pending, href, links, i, openPages, navigated, html,
                   rows, notified, log, ret>>
    /\ UNCHANGED xvars

\* the failed link tried again: the loop index does not move on
ExceptRetries ==
    /\ log' = Append(log, links[i])
    /\ pc' = "open"
    /\ UNCHANGED <<i, raised, ret>>

\* the link loop without its try/except: the error ends the run
ExceptEndsRun ==
    /\ log' = Append(log, links[i])
    /\ pc' = "failed"
    /\ UNCHANGED <<i, raised, ret>>

\* lines 123-125: except Exception: print, continue
ExceptBranch ==
    /\ log' = Append(log, links[i])
    /\ pc' = AfterLink(i, Len(links))
    /\ i' = IF i < Len(links) THEN i + 1 ELSE i
    /\ UNCHANGED <<raised, ret>>

\* an awaited operation of the link loop raised
LinkFails ==
    /\ ExceptBranch
    /\ UNCHANGED <<keyword, selected_domains, max_results, progress, next_btn, query,
                   barrier, pageNo, pending, href, links, openPages, navigated, html, rows,
                   notified>>
    /\ UNCHANGED xvars

(***************************************************************************)
(* The wrapper and the browser start (lines 131-133, 69-76).               *)
(***************************************************************************)
\* lines 132-133: asyncio.get_event_loop() (RuntimeError in a thread that has
\* no event loop), then run_until_complete starts the coroutine: rows = []
\* (line 69) and async_playwright().__aenter__() is awaited
Call ==
    /\ pc = "call"
    /\ \/ /\ pc' = "start"
          /\ UNCHANGED <<keyword, selected_domains, max_results, progress, next_btn, query,
                         barrier, pageNo, pending, href, links, i, openPages, navigated,
                         html, rows, notified, log, raised, ret>>
          /\ UNCHANGED xvars
       \/ Escape("get_event_loop")

\* line 70: async with async_playwright() as p
Start ==
    /\ pc = "start"
    /\ \/ /\ pc' = "launch"
          /\ UNCHANGED <<keyword, selected_domains, max_results, progress, next_btn, query,
                         barrier, pageNo, pending, href, links, i, openPages, navigated,
                         html, rows, notified, log, raised, ret>>
          /\ UNCHANGED xvars
       \/ Escape("start")

\* line 71: p.chromium.launch
Launch ==
    /\ pc = "launch"
    /\ \/ /\ pc' = "new_page"
          /\ UNCHANGED <<keyword, selected_domains, max_results, progress, next_btn, query,
                         barrier, pageNo, pending, href, links, i, openPages, navigated,
                         html, rows, notified, log, raised, ret>>
          /\ UNCHANGED xvars
       \/ Abort("launch")

\* line 72: browser.new_page(); lines 74-76: build_query, page.goto called
NewPage ==
    /\ pc = "new_page"
    /\ \/ /\ query' = build_query(keyword, selected_domains)
          /\ pc' = "goto"
          /\ UNCHANGED <<keyword, selected_domains, max_results, progress, next_btn,
                         barrier, pageNo, pending, href, links, i, openPages, navigated,
                         html, rows, notified, log, raised, ret>>
          /\ UNCHANGED xvars
       \/ Abort("new_page")

\* line 76: page.goto(search_url, timeout=60000)
Goto ==
    /\ pc = "goto"
    /\ \/ /\ pc' = "page_content"
          /\ UNCHANGED <<keyword, selected_domains, max_results, progress, next_btn, query,
                         barrier, pageNo, pending, href, links, i, openPages, navigated,
                         html, rows, notified, log, raised, ret>>
          /\ UNCHANGED xvars
       \/ Abort("goto")

(***************************************************************************)
(* Consent (lines 79-85) and pagination (lines 87-102).                    *)
(***************************************************************************)
\* line 80: "Before you continue" in html or "consent" in page.url
ConsentDetected(content, urlHasConsent) ==
    Contains(content, BeforeYouContinue) \/ urlHasConsent

\* line 88: the while test
WhileTest(lnks, maxr) == Len(lnks) < maxr

\* the for loop over links starts (line 105: browser.new_page is called for
\* the first link), or is skipped when links is empty (line 127)
EnterLinkLoop(lnks) ==
    /\ pc' = IF lnks = <<>> THEN "shutdown" ELSE "open"
    /\ i' = IF lnks = <<>> THEN i ELSE 1

\* line 88: the while loop entered (query_selector_all is called) or passed over
EnterWhile(lnks) ==
    IF WhileTest(lnks, max_results)
    THEN pc' = "query" /\ i' = i
    ELSE EnterLinkLoop(lnks)

\* the click error of the consent step left to propagate (no try/except)
ClickErrorPropagates ==
    /\ Propagate("consent_click")
    /\ UNCHANGED <<links, i, openPages>>

\* lines 84-85: the click on "I agree" raised (control absent, timeout, any
\* other error): except: pass, then links = [] and the while loop
ClickErrorSwallowed ==
    /\ links' = <<>>
    /\ EnterWhile(<<>>)
    /\ UNCHANGED <<raised, ret, openPages>>

\* line 79: html = await page.content(); line 80: the consent test; with no
\* consent marker, links = [] (line 87) and the while loop
Consent ==
    /\ pc = "page_content"
    /\ \/ \E content \in SearchMarkups, urlHasConsent \in BOOLEAN :
            /\ html' = content
            /\ IF ConsentDetected(content, urlHasConsent)
               THEN /\ barrier' = "shown"
                    /\ pc' = "click_consent"
                    /\ UNCHANGED <<links, i>>
               ELSE /\ barrier' = "none"
                    /\ links' = <<>>
                    /\ EnterWhile(<<>>)
            /\ UNCHANGED <<keyword, selected_domains, max_results, progress, next_btn,
                           query, pageNo, pending, href, openPages, navigated, rows,
                           notified, log, raised, ret>>
            /\ UNCHANGED xvars
       \/ Abort("content")

\* line 82: page.click("button:has-text('I agree')", timeout=5000)
ClickConsent ==
    /\ pc = "click_consent"
    /\ \/ /\ barrier' = "dismissed"
          /\ pc' = "wait_consent"
          /\ UNCHANGED <<keyword, selected_domains, max_results, progress, next_btn, query,
                         pageNo, pending, href, links, i, openPages, navigated, html, rows,
                         notified, log, raised, ret>>
          /\ UNCHANGED xvars
       \/ /\ ClickErrorSwallowed
          /\ UNCHANGED <<keyword, selected_domains, max_results, progress, next_btn, query,
                         barrier, pageNo, pending, href, navigated, html, rows, notified,
                         log>>
          /\ UNCHANGED xvars

\* line 83: page.wait_for_timeout(2000); its return and its raise (swallowed
\* by lines 84-85) both lead to links = [] and the while loop
WaitConsent ==
    /\ pc = "wait_consent"
    /\ links' = <<>>
    /\ EnterWhile(<<>>)
    /\ UNCHANGED <<keyword, selected_domains, max_results, progress, next_btn, query,
                   barrier, pageNo, pending, href, openPages, navigated, html, rows,
                   notified, log, raised, ret>>
    /\ UNCHANGED xvars

\* the results pages the search can serve: up to MaxAnchors anchors each
AnchorLists == SeqsUpTo(AnchorHrefs, MaxAnchors)

\* line 89: page.query_selector_all("a h3"); with anchors, evaluate_handle is
\* called on the first (line 91), with none, query_selector (line 98)
Query ==
    /\ pc = "query"
    /\ \/ /\ \E res \in AnchorLists :
                /\ pending' = res
                /\ pc' = IF res = <<>> THEN "next" ELSE "eval"
          /\ UNCHANGED <<keyword, selected_domains, max_results, progress, next_btn, query,
                         barrier, pageNo, href, links, i, openPages, navigated, html, rows,
                         notified, log, raised, ret>>
          /\ UNCHANGED xvars
       \/ Abort("query_selector_all")

\* line 91: r.evaluate_handle("node => node.parentElement")
Eval ==
    /\ pc = "eval"
    /\ pending # <<>>
    /\ \/ /\ pc' = "attr"
          /\ UNCHANGED <<keyword, selected_domains, max_results, progress, next_btn, query,
                         barrier, pageNo, pending, href, links, i, openPages, navigated,
                         html, rows, notified, log, raised, ret>>
          /\ UNCHANGED xvars
       \/ Abort("evaluate_handle")

\* line 92: parent.get_attribute("href"), then lines 93-96.  pending holds the
\* anchors of the current results page the loop has not examined; after the
\* break of line 96 they stay unexamined until the page is left.
Attr ==
    /\ pc = "attr"
    /\ pending # <<>>
    /\ \/ /\ LET found == IF Accepts(Head(pending), selected_domains, links)
                          THEN Append(links, Head(pending)) ELSE links
                 stop == found # links /\ BreakMidPage(found, max_results)
             IN  /\ href' = Head(pending)
                 /\ links' = found
                 /\ pending' = Tail(pending)
                 /\ pc' = IF stop \/ Tail(pending) = <<>> THEN "next" ELSE "eval"
          /\ UNCHANGED <<keyword, selected_domains, max_results, progress, next_btn, query,
                         barrier, pageNo, i, openPages, navigated, html, rows, notified,
                         log, raised, ret>>
          /\ UNCHANGED xvars
       \/ Abort("get_attribute")

\* line 98: page.query_selector("a#pnnext"), then lines 99-101: leave the
\* loop, or call next_btn.click().  The last results page (MaxPages) has no
\* next-page control.
NextBtn ==
    /\ pc = "next"
    /\ \/ \E btn \in BOOLEAN :
            /\ btn => pageNo < MaxPages
            /\ next_btn' = IF btn THEN "present" ELSE "absent"
            /\ LET step == PagingStep(btn, links, max_results)
               IN  \/ /\ step = "break"
                      /\ EnterLinkLoop(links)
                   \/ /\ step = "click"
                      /\ btn
                      /\ pc' = "click"
                      /\ UNCHANGED i
                   \/ /\ step = "again"
                      /\ pc' = "query"
                      /\ UNCHANGED i
            /\ pending' = <<>>
            /\ UNCHANGED <<keyword, selected_domains, max_results, progress, query,
                           barrier, pageNo, href, links, openPages, navigated, html, rows,
                           notified, log, raised, ret>>
            /\ UNCHANGED xvars
       \/ Abort("query_selector")

\* line 101: next_btn.click()
Click ==
    /\ pc = "click"
    /\ \/ /\ pageNo' = pageNo + 1
          /\ pc' = "wait_next"
          /\ UNCHANGED <<keyword, selected_domains, max_results, progress, next_btn, query,
                         barrier, pending, href, links, i, openPages, navigated, html,
                         rows, notified, log, raised, ret>>
          /\ UNCHANGED xvars
       \/ Abort("click")

\* line 102: page.wait_for_timeout(2000), then the while test of line 88
WaitNext ==
    /\ pc = "wait_next"
    /\ \/ /\ EnterWhile(links)
          /\ UNCHANGED <<keyword, selected_domains, max_results, progress, next_btn, query,
                         barrier, pageNo, pending, href, links, openPages, navigated, html,
                         rows, notified, log, raised, ret>>
          /\ UNCHANGED xvars
       \/ Abort("wait_for_timeout")

(***************************************************************************)
(* The link loop (lines 105-125) and the end of the run (127-128).         *)
(***************************************************************************)
\* line 107: browser.new_page(); line 108: new_page.goto(link) is called
OpenPage ==
    /\ pc = "open"
    /\ \/ /\ openPages' = openPages \cup {i}
          /\ navigated' = Append(navigated, links[i])
          /\ pc' = "nav"
          /\ UNCHANGED <<keyword, selected_domains, max_results, progress, next_btn, query,
                         barrier, pageNo, pending, href, links, i, html, rows, notified,
                         log, raised, ret>>
          /\ UNCHANGED xvars
       \/ LinkFails

\* line 108: new_page.goto(link, timeout=60000)
Navigate ==
    /\ pc = "nav"
    /\ \/ /\ pc' = "wait"
          /\ UNCHANGED <<keyword, selected_domains, max_results, progress, next_btn, query,
                         barrier, pageNo, pending, href, links, i, openPages, navigated,
                         html, rows, notified, log, raised, ret>>
          /\ UNCHANGED xvars
       \/ LinkFails

\* line 109: new_page.wait_for_timeout(3000)
Wait ==
    /\ pc = "wait"
    /\ \/ /\ pc' = "content"
          /\ UNCHANGED <<keyword, selected_domains, max_results, progress, next_btn, query,
                         barrier, pageNo, pending, href, links, i, openPages, navigated,
                         html, rows, notified, log, raised, ret>>
          /\ UNCHANGED xvars
       \/ LinkFails

\* line 110: html = await new_page.content()
Content ==
    /\ pc = "content"
    /\ \/ /\ html' \in PageMarkups
          /\ pc' = "close"
          /\ UNCHANGED <<keyword, selected_domains, max_results, progress, next_btn, query,
                         barrier, pageNo, pending, href, links, i, openPages, navigated,
                         rows, notified, log, raised, ret>>
          /\ UNCHANGED xvars
       \/ LinkFails

\* line 111: new_page.close(), then lines 113-122: extract_contacts_from_html,
\* rows.append, progress.progress.  When urlparse(link) raises ValueError
\* (line 117) no row is appended and the except branch runs, the page already
\* closed.  The observer is called inside the try block, after rows.append:
\* when it raises an Exception the except branch runs with the row appended,
\* and any other BaseException (KeyboardInterrupt, a script-control exception
\* of the UI) leaves the loop.
CloseAndRecord ==
    /\ pc = "close"
    /\ \/ /\ openPages' = openPages \ {i}
          /\ ~UrlparseRaises(links[i])
          /\ \E eo \in EmailOrders(html), po \in PhoneOrders(html) :
                LET c == extract_contacts_from_html(eo, po)
                IN  rows' = AppendRow(rows, MakeRecord(keyword, links[i], c.emails, c.phones))
          /\ \/ /\ notified' = IF progress
                               THEN Append(notified, Fraction(i, Len(links)))
                               ELSE notified
                /\ pc' = AfterLink(i, Len(links))
                /\ i' = IF i < Len(links) THEN i + 1 ELSE i
                /\ UNCHANGED <<log, raised, ret>>
             \/ /\ progress
                /\ notified' = Append(notified, Fraction(i, Len(links)))
                /\ ExceptBranch
             \/ /\ progress
                /\ notified' = Append(notified, Fraction(i, Len(links)))
                /\ Propagate("progress")
                /\ UNCHANGED <<i, log>>
          /\ UNCHANGED <<keyword, selected_domains, max_results, progress, next_btn, query,
                         barrier, pageNo, pending, href, links, navigated, html>>
          /\ UNCHANGED xvars
       \/ /\ openPages' = openPages \ {i}
          /\ UrlparseRaises(links[i])
          /\ ExceptBranch
          /\ UNCHANGED <<keyword, selected_domains, max_results, progress, next_btn, query,
                         barrier, pageNo, pending, href, links, navigated, html, rows,
                         notified>>
          /\ UNCHANGED xvars
       \/ LinkFails

\* line 127: browser.close(); the exit of the async-with block is awaited next
Shutdown ==
    /\ pc = "shutdown"
    /\ \/ /\ openPages' = {}
          /\ pc' = "stop"
          /\ UNCHANGED <<keyword, selected_domains, max_results, progress, next_btn, query,
                         barrier, pageNo, pending, href, links, i, navigated, html, rows,
                         notified, log, raised, ret>>
          /\ UNCHANGED xvars
       \/ Abort("browser_close")

\* line 70: the exit of the async-with block after line 127 (Playwright is
\* stopped); line 128: return rows, handed on by run_until_complete
Stop ==
    /\ pc = "stop"
    /\ \/ /\ pc' = "done"
          /\ ret' = Returned(rows)
          /\ UNCHANGED <<keyword, selected_domains, max_results, progress, next_btn, query,
                         barrier, pageNo, pending, href, links, i, openPages, navigated,
                         html, rows, notified, log, raised>>
          /\ UNCHANGED xvars
       \/ Escape("stop")

\* line 70: the exit of the async-with block with an exception in flight:
\* Playwright is stopped, every page context with it, and run_until_complete
\* re-raises the exception to the caller (raised keeps naming the first one
\* should the exit raise as well)
Unwind ==
    /\ pc = "unwind"
    /\ pc' = "failed"
    /\ openPages' = {}
    /\ UNCHANGED <<keyword, selected_domains, max_results, progress, next_btn, query,
                   barrier, pageNo, pending, href, links, i, navigated, html, rows,
                   notified, log, raised, ret>>
    /\ UNCHANGED xvars

Next ==
    \/ Call
    \/ Start
    \/ Launch
    \/ NewPage
    \/ Goto
    \/ Consent
    \/ ClickConsent
    \/ WaitConsent
    \/ Query
    \/ Eval
    \/ Attr
    \/ NextBtn
    \/ Click
    \/ WaitNext
    \/ OpenPage
    \/ Navigate
    \/ Wait
    \/ Content
    \/ CloseAndRecord
    \/ Shutdown
    \/ Stop
    \/ Unwind

Spec == Init /\ [][Next]_vars

(***************************************************************************)
(* The link collector on its own (lines 69-102): the run up to the point   *)
(* where the while loop is left.  The coroutine is the only task of the    *)
(* event loop and every awaited browser operation returns or raises (each  *)
(* has a timeout), so it always takes its next step: weak fairness.        *)
(***************************************************************************)
CollectInit ==
    /\ keyword = <<"l", "a", "b">>
    /\ selected_domains \in DomainChoices
    /\ max_results \in 1..MaxResults
    /\ progress = FALSE
    /\ RunStart
    /\ ExtractIdle

CollectNext ==
    \/ Call
    \/ Start
    \/ Launch
    \/ NewPage
    \/ Goto
    \/ Consent
    \/ ClickConsent
    \/ WaitConsent
    \/ Query
    \/ Eval
    \/ Attr
    \/ NextBtn
    \/ Click
    \/ WaitNext

CollectSpec == CollectInit /\ [][CollectNext]_vars /\ WF_vars(CollectNext)

(***************************************************************************)
(* extract_contacts_from_html called on its own, on markup assembled from  *)
(* up to MaxParts fragments.                                               *)
(***************************************************************************)
RunIdle ==
    /\ keyword = <<"l", "a", "b">>
    /\ selected_domains = <<>>
    /\ max_results = 1
    /\ progress = FALSE
    /\ RunStart

ExtractInit ==
    /\ parts \in SeqsUpTo(Fragments, MaxParts)
    /\ markup = Concat(parts)
    /\ xpc = "input"
    /\ emails = <<>>
    /\ phones = <<>>
    /\ RunIdle

Extract ==
    /\ xpc = "input"
    /\ \E eo \in EmailOrders(markup), po \in PhoneOrders(markup) :
          LET c == extract_contacts_from_html(eo, po)
          IN  /\ emails' = c.emails
              /\ phones' = c.phones
    /\ xpc' = "extracted"
    /\ UNCHANGED <<parts, markup>>
    /\ UNCHANGED rvars

ExtractNext == Extract

ExtractSpec == ExtractInit /\ [][ExtractNext]_vars

(***************************************************************************)
(* build_query called on its own, on keywords of up to MaxKeywordLen       *)
(* characters and on every list of distinct domains.                       *)
(***************************************************************************)
LinkedInCom == <<"l", "i", "n", "k", "e", "d", "i", "n", ".", "c", "o", "m">>

DentalLab == <<"d", "e", "n", "t", "a", "l", " ", "l", "a", "b">>

KeywordChars == {"a", " ", "\""}

MaxKeywordLen == 3

QueryKeywords == SeqsUpTo(KeywordChars, MaxKeywordLen) \cup {DentalLab}

QueryDomainLists ==
    UNION {Orderings(D) : D \in SUBSET {XCom, TwitterCom, LinkedInCom}}

QueryInit ==
    /\ keyword \in QueryKeywords
    /\ selected_domains \in QueryDomainLists
    /\ max_results = 1
    /\ progress = FALSE
    /\ pc = "build_query"
    /\ RunFields
    /\ ExtractIdle

BuildQuery ==
    /\ pc = "build_query"
    /\ query' = build_query(keyword, selected_domains)
    /\ pc' = "built"
    /\ UNCHANGED <<keyword, selected_domains, max_results, progress, next_btn, barrier,
                   pageNo, pending, href, links, i, openPages, navigated, html, rows,
                   notified, log, raised, ret>>
    /\ UNCHANGED xvars

QueryNext == BuildQuery

QuerySpec == QueryInit /\ [][QueryNext]_vars

(***************************************************************************)
(* Properties.                                                             *)
(***************************************************************************)
\* the awaits up to the end of the while loop
CollectingPcs ==
    {"call", "start", "launch", "new_page", "goto", "page_content", "click_consent",
     "wait_consent", "query", "eval", "attr", "next", "click", "wait_next"}

\* the awaits of the link loop
LinkLoopPcs == {"open", "nav", "wait", "content", "close"}

MatchesSelected(h) == \E k \in 1..Len(selected_domains) : Contains(h, selected_domains[k])

\* position of the first occurrence of x in full, 0 when absent
Pos(x, full) ==
    IF InList(x, full) THEN SetMin({k \in 1..Len(full) : full[k] = x}) ELSE 0

\* sub lists members of full, in the order they have in full
OrderedWithin(sub, full) ==
    /\ \A k \in 1..Len(sub) : InList(sub[k], full)
    /\ \A a, b \in 1..Len(sub) : a < b => Pos(sub[a], full) < Pos(sub[b], full)

\* C1: at every point of the collection loop and after it, the accumulated
\* link list holds at most max_results links and every link contains one of
\* the selected domains as a substring.
C1_LinksCappedAndFiltered ==
    /\ Len(links) <= max_results
    /\ \A k \in 1..Len(links) : MatchesSelected(links[k])

\* C1 witness: the cap was reached in the middle of a results page, with a
\* link that matches x.com only as a substring (netflix.com).
C1_Witness ==
    /\ pc = "next"
    /\ max_results >= 2
    /\ Len(links) = max_results
    /\ InList(HrefNetflix, links)
    /\ selected_domains = <<XCom>>

\* C2: the link list never holds the same URL twice, and it only ever grows
\* at its end by a URL it did not hold, so a repeated URL keeps the position
\* of its first discovery.
C2_NoDuplicateLinks ==
    /\ [](\A a, b \in 1..Len(links) : a # b => links[a] # links[b])
    /\ [][\/ links' = links
          \/ /\ Len(links') = Len(links) + 1
             /\ SubSeq(links', 1, Len(links)) = links
             /\ ~InList(links'[Len(links')], links)]_vars

\* C2 witness: the anchor scanned last repeated the first link after a second
\* link had been found, and was not added again.
C2_Witness ==
    /\ pc \in {"eval", "next"}
    /\ Len(links) = 2
    /\ href = links[1]

\* C3: over a finite chain of results pages the pagination loop ends: the
\* run eventually leaves the collecting positions (it enters the link loop or
\* ends), also when fewer than max_results links exist.
C3_CollectorTerminates == <>(pc \notin CollectingPcs)

\* C3 witness: the last results page was reached and the loop ended with no
\* link at all, fewer than max_results.
C3_Witness ==
    /\ pc = "shutdown"
    /\ raised = "none"
    /\ pageNo = MaxPages
    /\ links = <<>>
    /\ selected_domains # <<>>

\* C4: a step in which an operation of a link's visit raises (the link is
\* reported and its page was not closed by the step) adds no record, does not
\* end the run and moves on to the next link; the link being visited has no
\* record yet, and at the end every collected link was recorded or reported.
C4_FailedLinkSkipped ==
    /\ [][(Len(log') > Len(log) /\ openPages' = openPages) =>
            /\ rows' = rows
            /\ pc' \in {"open", "shutdown"}
            /\ raised' = "none"
            /\ (i < Len(links) => i' = i + 1 /\ pc' = "open")]_vars
    /\ [](pc \in LinkLoopPcs => ~InList(links[i], Urls(rows)))
    /\ [](pc = "done" =>
            \A k \in 1..Len(links) :
                InList(links[k], log) \/ InList(links[k], Urls(rows)))

\* C4 witness: the first link's visit failed and a later link was recorded.
C4_Witness ==
    /\ pc = "done"
    /\ Len(links) >= 2
    /\ log = <<links[1]>>
    /\ Len(rows) = Len(links) - 1

\* C5: navigations happen in the order of the link list, and the urls of the
\* records are a subsequence of the link list in that order.
C5_DiscoveryOrder ==
    /\ OrderedWithin(navigated, links)
    /\ OrderedWithin(Urls(rows), links)
    /\ pc \in LinkLoopPcs => \A k \in 1..Len(rows) : Pos(rows[k].url, links) < i

\* C5 witness: three links, the middle one skipped, the other two recorded.
C5_Witness ==
    /\ pc = "done"
    /\ Len(links) = 3
    /\ Urls(rows) = <<links[1], links[3]>>

\* C6 (as claimed): every link page context is closed before the next one is
\* opened, so at most one is open and none is open once the link loop ended.
C6_PageClosedBeforeNext ==
    /\ Cardinality(openPages) <= 1
    /\ pc \in LinkLoopPcs => openPages \subseteq {i}
    /\ pc = "shutdown" => openPages = {}

\* C7 (as claimed): the step in which the page of a visited link is closed
\* (the visit succeeded) appends exactly one record, with that link as url
\* and the run's keyword; the run returns the records and nothing else.
C7_OneRecordPerVisitedLink ==
    /\ [][(pc = "close" /\ openPages' = openPages \ {i}) =>
            /\ Len(rows') = Len(rows) + 1
            /\ SubSeq(rows', 1, Len(rows)) = rows
            /\ rows'[Len(rows')].url = links[i]
            /\ rows'[Len(rows')].keyword = keyword]_vars
    /\ [](pc = "done" => ret = Returned(rows))

\* the awaits before the search page is loaded (lines 70-76)
StartupErrors == {"start", "launch", "new_page", "goto"}

\* C8: when the browser start or launch or the first navigation raises, the
\* run is failing or has failed, returns nothing, and no link was collected
\* or visited; the only step left to a failing run is the one that fails it.
C8_FatalErrorPropagates ==
    /\ [](raised \in StartupErrors =>
            /\ pc \in {"unwind", "failed"}
            /\ ret = NoReturn
            /\ links = <<>>
            /\ navigated = <<>>
            /\ rows = <<>>)
    /\ [][pc = "unwind" => (pc' = "failed" /\ ret' = NoReturn /\ raised' = raised)]_vars

\* C8 witness: the first navigation to the search URL raised and the run failed.
C8_Witness == raised = "goto" /\ pc = "failed" /\ query # <<>>

\* C9 (as claimed): with an observer, a finished run over n links has made n
\* notifications, the k-th being k/n, so the last one is 1.0.
C9_ProgressAfterEachLink ==
    (pc = "done" /\ progress) =>
        /\ Len(notified) = Len(links)
        /\ \A k \in 1..Len(notified) : notified[k] = Fraction(k, Len(links))

\* the presentations the claim names: bare, with "+91", with "91", and with
\* a separator character after the prefix
ClaimedKinds == {"bare", "plus", "plus_space", "plus_dash", "cc"}

\* parts presents the number n, and nothing else, one or more times,
\* the presentations separated by single spaces
PresentsOnly(n) ==
    /\ parts # <<>>
    /\ Len(parts) % 2 = 1
    /\ \A k \in 1..Len(parts) :
          IF k % 2 = 1
          THEN \E kind \in ClaimedKinds : parts[k] = Present(n, kind)
          ELSE parts[k] = Space

\* C10 (as claimed): for markup presenting a valid mobile number in any mix
\* of presentations, the phone output holds "+91" and its ten digits exactly
\* once.
C10_NormalisedExactlyOnce ==
    xpc = "extracted" =>
        \A n \in Numbers :
            PresentsOnly(n) => Count(<<"+", "9", "1">> \o n, phones) = 1

\* C11: every phone in the output starts with "+91" and is accepted by the
\* validator; the candidate of a raw match the validator rejects is not in
\* the output, and the extraction still returns.
C11_PhonesValidated ==
    xpc = "extracted" =>
        /\ \A k \in 1..Len(phones) :
              /\ StartsWith(phones[k], <<"+", "9", "1">>)
              /\ validate_indian_number(phones[k])
        /\ \A m \in Range(raw_phones(markup)) :
              ~validate_indian_number(Candidate(m)) => ~InList(Candidate(m), phones)

\* C11 witness: one raw match was rejected by the validator and another was
\* accepted, in the same extraction.
C11_Witness ==
    /\ xpc = "extracted"
    /\ phones # <<>>
    /\ \E m \in Range(raw_phones(markup)) : ~validate_indian_number(Candidate(m))

\* C12: the email output lists every matched address, each exactly once,
\* however often it occurs in the markup.
C12_EmailsOnce ==
    xpc = "extracted" =>
        /\ Range(emails) = Range(raw_emails(markup))
        /\ \A k \in 1..Len(emails) : Count(emails[k], emails) = 1

\* C12 witness: the same address was matched twice in the markup.
C12_Witness ==
    /\ xpc = "extracted"
    /\ Count(Email1, raw_emails(markup)) >= 2
    /\ InList(Email1, emails)

\* C13: the step in which the consent click fails ends no run: the collector
\* goes on to query the results page, in the state the step that finds no
\* consent barrier leaves (only the interstitial itself remains).
C13_ConsentFailureSwallowed ==
    [][(pc = "click_consent" /\ pc' # "wait_consent") =>
          /\ pc' = "query"
          /\ barrier' = "shown"
          /\ raised' = "none"
          /\ ret' = NoReturn
          /\ links' = <<>>
          /\ UNCHANGED <<pageNo, pending, href, i, openPages, navigated, html, rows,
                         notified, log, next_btn, query>>]_vars

\* C13 witness: the consent click failed and the run went on to return a record.
C13_Witness ==
    /\ barrier = "shown"
    /\ pc = "done"
    /\ rows # <<>>

\* C14: no link is navigated to twice, no link is reported failed twice, and
\* the link being visited is never one whose visit already failed.
C14_NoRetry ==
    /\ \A a, b \in 1..Len(navigated) : a # b => navigated[a] # navigated[b]
    /\ \A a, b \in 1..Len(log) : a # b => log[a] # log[b]
    /\ pc \in LinkLoopPcs => ~InList(links[i], log)
    /\ Len(navigated) <= Len(links)

\* C14 witness: a navigation failed, and the run ended with every link
\* navigated to exactly once.
C14_Witness ==
    /\ pc = "done"
    /\ Len(links) >= 2
    /\ log # <<>>
    /\ InList(log[1], navigated)
    /\ Len(navigated) = Len(links)

\* C15: the coroutine awaits one browser operation at a time.  While links are
\* being collected no link page was opened, navigated to, recorded or reported;
\* in the link loop every link before the current one was either recorded or
\* reported failed before the current visit began, and the operations awaited
\* after new_page are on the current link's page.
C15_OneOperationAtATime ==
    /\ pc \in CollectingPcs =>
          /\ navigated = <<>>
          /\ openPages = {}
          /\ rows = <<>>
          /\ log = <<>>
    /\ pc \in LinkLoopPcs =>
          /\ i \in 1..Len(links)
          /\ \A k \in 1..(i - 1) : InList(links[k], Urls(rows)) \/ InList(links[k], log)
          /\ \A k \in 1..Len(rows) : Pos(rows[k].url, links) < i
          /\ \A k \in 1..Len(log) : Pos(log[k], links) < i
          /\ \A k \in 1..Len(navigated) : Pos(navigated[k], links) <= i
    /\ pc \in {"nav", "wait", "content", "close"} =>
          /\ i \in openPages
          /\ navigated[Len(navigated)] = links[i]

\* C15 witness: the third link's page is being read after the first visit
\* failed and the second succeeded.
C15_Witness ==
    /\ pc = "content"
    /\ i = 3
    /\ Len(log) = 1
    /\ Len(rows) = 1
    /\ log[1] = links[1]

EndsWith(s, suf) ==
    Len(s) >= Len(suf) /\ SubSeq(s, Len(s) - Len(suf) + 1, Len(s)) = suf

\* C16: for a non-empty keyword and a non-empty domain list the query opens
\* with the parenthesised site terms joined by OR, holds site:d for every
\* selected d, then the keyword in double quotes followed by the region hints
\* ("India" OR "Mumbai" OR ...), and ends with the phone hints.
C16_QueryForm ==
    (pc = "built" /\ keyword # <<>> /\ selected_domains # <<>>) =>
        /\ StartsWith(query, <<"(">> \o SitePrefix \o selected_domains[1])
        /\ \A k \in 1..Len(selected_domains) :
              Contains(query, SitePrefix \o selected_domains[k])
        /\ \A k \in 1..(Len(selected_domains) - 1) :
              Contains(query, selected_domains[k] \o <<" ", "O", "R", " ", "s", "i", "t", "e", ":">> \o selected_domains[k + 1])
        /\ Contains(query, selected_domains[Len(selected_domains)] \o <<")", " ", "\"">> \o keyword
                              \o <<"\"", " ", "(", "\"", "I", "n", "d", "i", "a", "\"", " ", "O", "R", " ", "\"", "M", "u", "m", "b", "a", "i", "\"", " ", "O", "R", " ">>)
        /\ Contains(query, <<"\"", "M", "u", "m", "b", "a", "i", "\"">>)
        /\ EndsWith(query, <<"O", "R", " ", "i", "n", "t", "e", "x", "t", ":", "\"", "c", "a", "l", "l", "\"", ")">>)

\* C16 witness: the query for "dental lab" on two domains was built.
C16_Witness ==
    /\ pc = "built"
    /\ keyword = DentalLab
    /\ selected_domains = <<LinkedInCom, XCom>>
    /\ Contains(query, <<"s", "i", "t", "e", ":", "l", "i", "n", "k", "e", "d", "i", "n", ".", "c", "o", "m", " ", "O", "R", " ", "s", "i", "t", "e", ":", "x", ".", "c", "o", "m", ")", " ", "\"", "d", "e", "n", "t", "a", "l", " ", "l", "a", "b", "\"">>)

\* C17: the step that brings the count to max_results ends the scan of the
\* page; once the count has reached max_results no anchor is added and the
\* next-page control is not clicked; a click is made or in flight only with
\* the count below max_results and the control present.
C17_StopsAtMax ==
    /\ [][/\ (pc = "attr" /\ Len(links') >= max_results) => pc' = "next"
          /\ Len(links) >= max_results =>
                (links' = links /\ pc' # "click" /\ pageNo' = pageNo)
          /\ (pc' = "click" /\ pc # "click") =>
                /\ pc = "next"
                /\ Len(links) < max_results
                /\ next_btn' = "present"
          /\ pageNo' # pageNo => pc = "click"]_vars
    /\ [](pc = "click" => Len(links) < max_results /\ next_btn = "present")

\* C17 witness: the scan stopped at the maximum with an anchor of the page
\* left that the filter would have accepted.
C17_Witness ==
    /\ pc = "next"
    /\ Len(links) = max_results
    /\ pending # <<>>
    /\ Accepts(Head(pending), selected_domains, links)

\* the run reached the link loop with the maximum collected although a
\* next-page control was present
C17_WitnessNoClick ==
    /\ pc = "open"
    /\ next_btn = "present"
    /\ Len(links) = max_results
    /\ pageNo = 1

\* the awaits of the pagination loop (lines 89, 91, 92, 98, 101, 102)
PaginationErrors ==
    {"query_selector_all", "evaluate_handle", "get_attribute", "query_selector", "click",
     "wait_for_timeout"}

\* C18: an error raised by an element query, an attribute read or the
\* next-page click during pagination aborts the run: nothing is returned, so
\* the links accumulated so far are lost, no link was or will be visited and
\* no record exists.
C18_PaginationErrorAborts ==
    raised \in PaginationErrors =>
        /\ pc \in {"unwind", "failed"}
        /\ ret = NoReturn
        /\ query # <<>>
        /\ navigated = <<>>
        /\ openPages = {}
        /\ rows = <<>>
        /\ notified = <<>>

\* C18 witness: the next-page click failed with links already accumulated.
C18_Witness ==
    /\ raised = "click"
    /\ pc = "failed"
    /\ links # <<>>
    /\ pageNo = 1

\* C19: with no selected domain no anchor is ever accepted: the collector
\* leaves its loop only when the next-page control is absent, with no link;
\* no page is opened or visited, no progress is notified, and a run that
\* returns returns the empty record sequence.
C19_NoDomainsNoLinks ==
    selected_domains = <<>> =>
        /\ links = <<>>
        /\ pc \notin LinkLoopPcs
        /\ pc \in {"shutdown", "stop", "done"} => next_btn = "absent"
        /\ navigated = <<>>
        /\ rows = <<>>
        /\ notified = <<>>
        /\ pc = "done" => ret = Returned(<<>>)

\* C19 witness: a run with no selected domain paged to the last results page,
\* saw an anchor of a social domain there, and returned.
C19_Witness ==
    /\ selected_domains = <<>>
    /\ pc = "done"
    /\ pageNo = MaxPages
    /\ href \in {HrefX, HrefBracket}
    /\ next_btn = "absent"
    /\ ret = Returned(<<>>)

====
